---- MODULE Spec2Model ----
(***************************************************************************)
(* Model of the weather-api Predict request handler                        *)
(* (src/src/app/predict/page.tsx, POST and the functions it calls).        *)
(*                                                                         *)
(* One request is followed from its body to its response.  Every await of  *)
(* the handler is a step boundary: the synchronous code between two awaits *)
(* is one action.  Upstream services (language model, geocoder, forecast,  *)
(* historical archive) answer nondeterministically.                        *)
(*                                                                         *)
(* Encodings.                                                              *)
(*  - undefined/null is None == <<>>, a present value v is Some(v) == <<v>>*)
(*  - a string of text is the sequence of its whitespace-separated tokens; *)
(*    the regular expressions of the source are modelled on tokens, with   *)
(*    the character classes of the source deciding each token's class      *)
(*  - an instant is an integer number of time units since 1970-01-01T00Z,  *)
(*    UnitsPerDay units to the day; a calendar day is its day number       *)
(*  - a date string is [iso, ok, t]: iso = it matches ^\d{4}-\d{2}-\d{2}$, *)
(*    ok = new Date(s) is a valid date, t = the instant new Date(s) denotes*)
(*  - temperatures, wind speeds and precipitation are in tenths of a unit  *)
(***************************************************************************)
EXTENDS Integers, Sequences, FiniteSets, TLC

None == <<>>

Some(v) == <<v>>

IsSome(o) == o # <<>>

Val(o) == o[1]

\* a ?? b on optional values
Coalesce(a, b) == IF IsSome(a) THEN a ELSE b

(***************************************************************************)
(* Bounds of the model                                                     *)
(***************************************************************************)
\* time units per day (the source works in milliseconds)
UnitsPerDay == 2

\* years of history fetched per request (the source passes 10)
YearsBack == 2

(***************************************************************************)
(* Program constants                                                       *)
(***************************************************************************)
\* within16d = daysAhead <= 16
GFSHorizonDays == 16

\* default date: now + 7 days
DefaultDaysAhead == 7

\* precipThreshold = 1 mm, in tenths of a mm
PrecipThresholdTenths == 10

\* neutral rain risk when nothing is known
NeutralRisk == 50

\* baseYear = yearGiven && yearGiven > 1900 ? yearGiven : current year
MinExplicitYear == 1900

(***************************************************************************)
(* Calendar: what Date.UTC, getUTCFullYear/Month/Date and toISOString do   *)
(***************************************************************************)
\* day number of the civil date y-m-d (proleptic Gregorian, 1970-01-01 = 0)
DaysFromCivil(y, m, d) ==
    LET yy  == IF m <= 2 THEN y - 1 ELSE y
        era == yy \div 400
        yoe == yy - era * 400
        mp  == IF m > 2 THEN m - 3 ELSE m + 9
        doy == (153 * mp + 2) \div 5 + d - 1
        doe == yoe * 365 + yoe \div 4 - yoe \div 100 + doy
    IN  era * 146097 + doe - 719468

\* civil date <<y, m, d>> of a day number
CivilFromDays(z) ==
    LET zz  == z + 719468
        era == zz \div 146097
        doe == zz - era * 146097
        yoe == (doe - doe \div 1460 + doe \div 36524 - doe \div 146096) \div 365
        doy == doe - (365 * yoe + yoe \div 4 - yoe \div 100)
        mp  == (5 * doy + 2) \div 153
        d   == doy - (153 * mp + 2) \div 5 + 1
        m   == IF mp < 10 THEN mp + 3 ELSE mp - 9
        y   == yoe + era * 400
    IN  << IF m <= 2 THEN y + 1 ELSE y, m, d >>

\* Date.UTC(year, month - 1, day): day numbers past the month's end carry over
DateUTC(y, m, d) == DaysFromCivil(y, m, 1) + d - 1

\* the calendar day (UTC) an instant falls on
DayOf(t) == t \div UnitsPerDay

\* the instant of midnight UTC of a day
Midnight(day) == day * UnitsPerDay

\* the string "YYYY-MM-DD" of a day: a date string that is ISO and valid
IsoString(day) == [iso |-> TRUE, ok |-> TRUE, t |-> Midnight(day)]

\* toISODate(d) = d.toISOString().slice(0, 10)
toISODate(t) == IsoString(DayOf(t))

\* a parseable string that is not of the form YYYY-MM-DD (it may carry a time)
Timestamp(t) == [iso |-> FALSE, ok |-> TRUE, t |-> t]

\* a string of the form YYYY-MM-DD that new Date() cannot parse ("2025-13-45")
BadIsoString == [iso |-> TRUE, ok |-> FALSE, t |-> 0]

\* a string that is no date at all ("demain")
JunkDateString == [iso |-> FALSE, ok |-> FALSE, t |-> 0]

\* normalizeDateISO reading every string in local time, a zone east of UTC:
\* the UTC day of local midnight is the day before
normalizeDateISO_localTime(maybe) ==
    IF ~IsSome(maybe) THEN None
    ELSE IF Val(maybe).ok THEN Some(IsoString(DayOf(Val(maybe).t - 1)))
    ELSE None

\* normalizeDateISO(maybe)
normalizeDateISO(maybe) ==
    IF ~IsSome(maybe) THEN None
    ELSE IF Val(maybe).iso THEN maybe
    ELSE IF Val(maybe).ok THEN Some(toISODate(Val(maybe).t))
    ELSE None

\* normalizeDateISO(maybe) of the Parse route
routeNormalizeDateISO(maybe) ==
    IF ~IsSome(maybe) THEN None
    ELSE IF Val(maybe).iso THEN maybe
    ELSE IF Val(maybe).ok THEN Some(toISODate(Val(maybe).t))
    ELSE None

(***************************************************************************)
(* Text: tokens and the character classes of the source's regular          *)
(* expressions.  \b and \w are ASCII in these expressions (no u flag), so  *)
(* an accented letter is a non-word character: "\bà" needs a word          *)
(* character right before the "à" and never matches the standalone word.   *)
(***************************************************************************)
\* tokens made of digits only, \d+
NumTokens == {"0", "5", "10", "18", "20", "29", "31", "1800", "2020", "2025"}

NumVal(t) ==
    CASE t = "0" -> 0 [] t = "5" -> 5 [] t = "10" -> 10 [] t = "18" -> 18
      [] t = "20" -> 20 [] t = "29" -> 29 [] t = "31" -> 31 [] t = "1800" -> 1800
      [] t = "2020" -> 2020 [] t = "2025" -> 2025 [] OTHER -> 0

NumDigits(t) ==
    CASE t \in {"0", "5"} -> 1 [] t \in {"10", "18", "20", "29", "31"} -> 2 [] OTHER -> 4

\* tokens of the class [A-Za-zÀ-ÖØ-öø-ÿ' -]+ (every token that is not digits)
IsLetters(t) == t \notin NumTokens

\* tokens that start with a character of [A-ZÀ-Ö]
IsCapitalized(t) ==
    t \in {"Vacances", "Paris", "Nice", "Atlantis", "Le", "Mars", "Plage", "Havre"}

\* String.prototype.toLowerCase on the vocabulary
LowerOf(t) ==
    CASE t = "Vacances" -> "vacances" [] t = "Paris" -> "paris"
      [] t = "Nice" -> "nice" [] t = "Atlantis" -> "atlantis"
      [] t = "Le" -> "le" [] t = "Mars" -> "mars" [] t = "Plage" -> "plage"
      [] t = "A" -> "a" [] t = "Havre" -> "havre"
      [] OTHER -> t

\* months of extractCandidateLocation
CandidateMonths ==
    {"janvier", "février", "fevrier", "mars", "avril", "mai", "juin", "juillet",
     "août", "aout", "septembre", "octobre", "novembre", "décembre", "decembre"}

\* stops of extractCandidateLocation
CandidateStops ==
    {"vacances", "le", "la", "les", "à", "a", "en", "au", "aux", "de", "du", "des"}

\* months of parseFrenchFallback: the month's number, 0 when the name is unknown
MonthNum(name) ==
    CASE name = "janvier" -> 1 [] name \in {"fevrier", "février"} -> 2
      [] name = "mars" -> 3 [] name = "avril" -> 4 [] name = "mai" -> 5
      [] name = "juin" -> 6 [] name = "juillet" -> 7 [] name \in {"aout", "août"} -> 8
      [] name = "septembre" -> 9 [] name = "octobre" -> 10 [] name = "novembre" -> 11
      [] name \in {"decembre", "décembre"} -> 12 [] OTHER -> 0

\* (vacances|rando|plage|mariage|sport|extérieur|exterieur) of parseFrenchFallback
FallbackActivities ==
    {"vacances", "rando", "plage", "mariage", "sport", "extérieur", "exterieur"}

\* (vacances|rando|plage|mariage|sport) of sanitizeLocationString
LeadingActivities == {"vacances", "rando", "plage", "mariage", "sport"}

\* /vacances|extérieur|rando|plage/i.test(activity), activity one word
OutdoorPattern == {"vacances", "extérieur", "rando", "plage"}

\* (?:\bà|\ba)\s+ : the standalone word "a"; never the standalone word "à"
MatchesPreposition(t) == LowerOf(t) = "a"

Min(S) == CHOOSE i \in S : \A j \in S : i <= j

Max(S) == CHOOSE i \in S : \A j \in S : i >= j

\* \ble\s*\d{1,2}\s*[a-zA-Zéèêëàâôûùîïç]+ matches at token i
IsDateFragAt(q, i) ==
    /\ i + 2 <= Len(q)
    /\ LowerOf(q[i]) = "le"
    /\ q[i + 1] \in NumTokens
    /\ NumDigits(q[i + 1]) <= 2
    /\ IsLetters(q[i + 2])

\* (\d{4})? finds a year at token i
HasYearAt(q, i) == i <= Len(q) /\ q[i] \in NumTokens /\ NumDigits(q[i]) = 4

\* s.replace(<date fragment>/gi, ''), the fragment with or without its year
RECURSIVE StripDateFrags(_, _, _)
StripDateFrags(q, i, withYear) ==
    IF i > Len(q) THEN <<>>
    ELSE IF IsDateFragAt(q, i)
         THEN StripDateFrags(q,
                  i + 3 + (IF withYear /\ HasYearAt(q, i + 3) THEN 1 ELSE 0), withYear)
         ELSE <<q[i]>> \o StripDateFrags(q, i + 1, withYear)

\* the last token of the run of letter tokens that starts at token i
RunEnd(q, i) == Max({j \in i..Len(q) : \A k \in i..j : IsLetters(q[k])})

\* sanitizeLocationString(input)
sanitizeLocationString(input) ==
    IF ~IsSome(input) \/ Val(input) = <<>> THEN None
    ELSE LET s1 == StripDateFrags(Val(input), 1, TRUE)
             starts == {i \in 1..Len(s1) :
                          /\ MatchesPreposition(s1[i])
                          /\ i + 1 <= Len(s1)
                          /\ IsLetters(s1[i + 1])}
             s2 == IF starts = {} THEN s1
                   ELSE SubSeq(s1, Min(starts) + 1, RunEnd(s1, Min(starts) + 1))
             s3 == IF Len(s2) >= 2 /\ LowerOf(s2[1]) \in LeadingActivities
                   THEN Tail(s2) ELSE s2
         IN  IF s3 = <<>> THEN None ELSE Some(s3)

\* the date fragment of the Parse route,
\* (?:\ble\s*)?\d{1,2}\s*[a-zA-Zéèêëàâôûùîïç]+(?:\s*\d{4})?, removed everywhere:
\* "le" is optional, and \d{1,2} also takes the last two digits of a longer
\* number that stands before a word, leaving the first two
FirstTwoDigits(t) == IF t = "1800" THEN "18" ELSE "20"

RECURSIVE routeStripDateFrags(_, _)
routeStripDateFrags(q, i) ==
    LET fragAt(k) == /\ k + 1 <= Len(q)
                     /\ q[k] \in NumTokens
                     /\ IsLetters(q[k + 1])
        after(k)  == k + 2 + (IF HasYearAt(q, k + 2) THEN 1 ELSE 0)
    IN  IF i > Len(q) THEN <<>>
        ELSE IF LowerOf(q[i]) = "le" /\ fragAt(i + 1) /\ NumDigits(q[i + 1]) <= 2
             THEN routeStripDateFrags(q, after(i + 1))
        ELSE IF fragAt(i) /\ NumDigits(q[i]) <= 2
             THEN routeStripDateFrags(q, after(i))
        ELSE IF fragAt(i)
             THEN <<FirstTwoDigits(q[i])>> \o routeStripDateFrags(q, after(i))
        ELSE <<q[i]>> \o routeStripDateFrags(q, i + 1)

\* sanitizeLocationString(input) of the Parse route: the other date fragment,
\* and standalone years (\b20\d{2}\b) removed after the leading activity word
routeSanitizeLocationString(input) ==
    IF ~IsSome(input) \/ Val(input) = <<>> THEN None
    ELSE LET s1 == routeStripDateFrags(Val(input), 1)
             starts == {i \in 1..Len(s1) :
                          /\ MatchesPreposition(s1[i])
                          /\ i + 1 <= Len(s1)
                          /\ IsLetters(s1[i + 1])}
             s2 == IF starts = {} THEN s1
                   ELSE SubSeq(s1, Min(starts) + 1, RunEnd(s1, Min(starts) + 1))
             s3 == IF Len(s2) >= 2 /\ LowerOf(s2[1]) \in LeadingActivities
                   THEN Tail(s2) ELSE s2
             s4 == SelectSeq(s3, LAMBDA t : ~(t \in NumTokens /\ NumDigits(t) = 4
                                              /\ NumVal(t) \div 100 = 20))
         IN  IF s4 = <<>> THEN None ELSE Some(s4)

\* extractCandidateLocation(query), scanning from token i
RECURSIVE CandidateFrom(_, _)
CandidateFrom(q, i) ==
    IF i > Len(q) THEN None
    ELSE IF ~IsCapitalized(q[i]) THEN CandidateFrom(q, i + 1)
    ELSE LET j == RunEnd(q, i)
         IN  IF j = i /\ LowerOf(q[i]) \in (CandidateMonths \cup CandidateStops)
             THEN CandidateFrom(q, j + 1)
             ELSE Some(SubSeq(q, i, j))

extractCandidateLocation(query) == CandidateFrom(query, 1)

\* the cleaned query of POST: date fragments, activity words, years and numbers
\* removed; /\bà\b/ removes no standalone "à"
cleanedQuery(query) ==
    SelectSeq(StripDateFrags(query, 1, FALSE),
              LAMBDA t : /\ LowerOf(t) \notin FallbackActivities
                         /\ ~(t \in NumTokens /\ NumDigits(t) <= 4))

\* the location of parseFrenchFallback:
\* (?:\bà|\ba)\s+([A-Za-zÀ-ÖØ-öø-ÿ' -]+?)(?:\s+le\b|$)
FallbackLocation(q) ==
    LET GroupEnds(i) == {j \in (i + 1)..Len(q) :
                           /\ \A k \in (i + 1)..j : IsLetters(q[k])
                           /\ (j = Len(q) \/ LowerOf(q[j + 1]) = "le")}
        starts == {i \in 1..Len(q) : MatchesPreposition(q[i]) /\ GroupEnds(i) # {}}
    IN  IF starts = {} THEN None
        ELSE Some(SubSeq(q, Min(starts) + 1, Min(GroupEnds(Min(starts)))))

\* the activity of parseFrenchFallback: the first vocabulary word, lowercased
FallbackActivity(q) ==
    LET hits == {i \in 1..Len(q) : LowerOf(q[i]) \in FallbackActivities}
    IN  IF hits = {} THEN None ELSE Some(LowerOf(q[Min(hits)]))

\* FallbackDate with the rollover applied to explicit years too
FallbackDate_rollsExplicitYear(q, now) ==
    LET frags == {i \in 1..Len(q) : IsDateFragAt(q, i)}
    IN  IF frags = {} THEN None
        ELSE LET i == Min(frags)
                 day == NumVal(q[i + 1])
                 month == MonthNum(LowerOf(q[i + 2]))
                 yearGiven == IF HasYearAt(q, i + 3) THEN NumVal(q[i + 3]) ELSE 0
                 thisYear == CivilFromDays(DayOf(now))[1]
                 baseYear == IF yearGiven # 0 /\ yearGiven > MinExplicitYear
                             THEN yearGiven ELSE thisYear
                 target == DateUTC(baseYear, month, day)
                 civil == CivilFromDays(target)
                 rolled == IF target < DayOf(now)
                           THEN DateUTC(civil[1] + 1, civil[2], civil[3])
                           ELSE target
             IN  IF month = 0 THEN None ELSE Some(IsoString(rolled))

\* the date of parseFrenchFallback, read at instant now
FallbackDate(q, now) ==
    LET frags == {i \in 1..Len(q) : IsDateFragAt(q, i)}
    IN  IF frags = {} THEN None
        ELSE LET i == Min(frags)
                 day == NumVal(q[i + 1])
                 month == MonthNum(LowerOf(q[i + 2]))
                 yearGiven == IF HasYearAt(q, i + 3) THEN NumVal(q[i + 3]) ELSE 0
                 thisYear == CivilFromDays(DayOf(now))[1]
                 baseYear == IF yearGiven # 0 /\ yearGiven > MinExplicitYear
                             THEN yearGiven ELSE thisYear
                 target == DateUTC(baseYear, month, day)
                 civil == CivilFromDays(target)
                 rolled == IF yearGiven = 0 /\ target < DayOf(now)
                           THEN DateUTC(civil[1] + 1, civil[2], civil[3])
                           ELSE target
             IN  IF month = 0 THEN None ELSE Some(IsoString(rolled))

\* parseFrenchFallback(query)
parseFrenchFallback(query, now) ==
    [location |-> FallbackLocation(query),
     dateISO  |-> FallbackDate(query, now),
     activity |-> FallbackActivity(query)]

(***************************************************************************)
(* Arithmetic of the source                                                *)
(***************************************************************************)
\* Math.round(a / b) for b > 0: the nearest integer, a half rounds up
RoundDiv(a, b) == (2 * a + b) \div (2 * b)

RECURSIVE SumSeq(_)
SumSeq(s) == IF s = <<>> THEN 0 ELSE Head(s) + SumSeq(Tail(s))

\* the pairs (f, h) of 0..100 for which 0.7 * f + 0.3 * h is a half in exact
\* arithmetic and falls just below it in IEEE double arithmetic
BlendTiesDown(f) ==
    CASE f = 1 -> {36, 46, 96}
      [] f = 2 -> {57, 67, 77, 87, 97}
      [] f = 3 -> {18}
      [] f = 6 -> {1, 11, 31}
      [] f = 7 -> {2, 62, 72, 82}
      [] f = 12 -> {7, 17, 57, 67, 77}
      [] f = 14 -> {9}
      [] f = 17 -> {2, 12, 62}
      [] f = 19 -> {4}
      [] f = 23 -> {8, 18, 48}
      [] f = 24 -> {9, 19, 29, 39, 49}
      [] f = 28 -> {3, 13, 23}
      [] f = 29 -> {4, 14, 24, 34}
      [] f = 33 -> {8, 18}
      [] f = 34 -> {9, 19}
      [] f = 38 -> {3, 13}
      [] f = 39 -> {4, 14}
      [] f = 45 -> {0}
      [] f = 46 -> {1, 11, 21, 31, 41, 51}
      [] f = 48 -> {3, 13, 23, 33, 43, 53, 63, 73, 83, 93}
      [] f = 51 -> {6, 16, 26, 36, 46}
      [] f = 53 -> {8, 18, 28, 38, 48, 58, 68, 78, 88}
      [] f = 56 -> {1, 11, 21, 31, 41, 51}
      [] f = 58 -> {3, 13, 23, 33, 43, 53, 63, 73}
      [] f = 61 -> {6, 16, 26, 36, 46}
      [] f = 63 -> {8, 18, 28, 38, 48, 58}
      [] f = 66 -> {1, 11, 21, 31, 41, 51}
      [] f = 68 -> {3, 13, 23, 33, 43, 53}
      [] f = 71 -> {6, 16, 26, 36, 46}
      [] f = 73 -> {8, 18, 28, 38}
      [] f = 76 -> {1, 11, 21, 31}
      [] f = 78 -> {3, 13, 23}
      [] f = 81 -> {6, 16}
      [] f = 83 -> {8, 18}
      [] f = 85 -> {0, 10}
      [] f = 86 -> {1, 11}
      [] f = 88 -> {3}
      [] f = 92 -> {7, 17, 27, 37, 47, 57, 67, 77, 87, 97}
      [] f = 96 -> {1, 11, 21, 31, 41, 51, 61, 71, 81, 91}
      [] f = 97 -> {2, 12, 22, 32, 42, 52, 62, 72, 82, 92}
      [] OTHER -> {}

\* Math.round(0.7 * fProb + 0.3 * hProb), fProb and hProb integers of 0..100
Blend(fProb, hProb) ==
    IF hProb \in BlendTiesDown(fProb)
    THEN (7 * fProb + 3 * hProb) \div 10
    ELSE (7 * fProb + 3 * hProb + 5) \div 10

\* Math.round(100 / (1 + Math.exp(-(x - 3)))) for x = 0.0, 0.1, ... 8.2 mm
LogisticTable ==
    << 5, 5, 6, 6, 7, 8, 8, 9, 10, 11, 12, 13, 14, 15, 17, 18, 20, 21, 23,
       25, 27, 29, 31, 33, 35, 38, 40, 43, 45, 48, 50, 52, 55, 57, 60, 62,
       65, 67, 69, 71, 73, 75, 77, 79, 80, 82, 83, 85, 86, 87, 88, 89, 90,
       91, 92, 92, 93, 94, 94, 95, 95, 96, 96, 96, 97, 97, 97, 98, 98, 98,
       98, 98, 99, 99, 99, 99, 99, 99, 99, 99, 99, 99, 99 >>

\* riskFromPrecipMm(mm), mm in tenths of a millimetre
riskFromPrecipMm(mm) ==
    IF ~IsSome(mm) THEN NeutralRisk
    ELSE LET x == IF Val(mm) < 0 THEN 0 ELSE Val(mm)
         IN  IF x + 1 <= Len(LogisticTable) THEN LogisticTable[x + 1] ELSE 100

\* labelWind(ms), ms in tenths of a metre per second
labelWind(ms) ==
    IF ~IsSome(ms) THEN "inconnu"
    ELSE IF Val(ms) > 100 THEN "fort"
    ELSE IF Val(ms) > 50 THEN "modéré"
    ELSE "faible"

(***************************************************************************)
(* Forecast source: fetchGFSviaOpenMeteo.  An upstream reply is            *)
(* [net, time, t2m, ws10, cc, pr, prp]: net is how the HTTP exchange ended,*)
(* time the hourly labels (the hour of each sample), the others the hourly *)
(* series, None when the reply omits the variable.                         *)
(***************************************************************************)
\* arr[idx] ?? null, idx counted from 0
At(arr, idx) == IF idx + 1 <= Len(arr) THEN Some(arr[idx + 1]) ELSE None

\* time.findIndex(t => t.endsWith('T12:00')), -1 when there is none
NoonIndex(time) ==
    LET hits == {i \in 1..Len(time) : time[i] = 12}
    IN  IF hits = {} THEN -1 ELSE Min(hits) - 1

\* x ?? [] on an hourly series
OrEmpty(series) == IF IsSome(series) THEN Val(series) ELSE <<>>

\* the Forecast that fetchGFSviaOpenMeteo builds from a successful reply
ForecastOf(reply) ==
    LET time == OrEmpty(reply.time)
        t2m  == OrEmpty(reply.t2m)
        ws10 == OrEmpty(reply.ws10)
        cc   == OrEmpty(reply.cc)
        pr   == OrEmpty(reply.pr)
        prp  == reply.prp
        idx  == IF NoonIndex(time) >= 0 THEN NoonIndex(time) ELSE Len(time) \div 2
        precipDaySum  == SumSeq(pr)
        precipProbAvg == IF IsSome(prp) /\ Len(Val(prp)) > 0
                         THEN Some(RoundDiv(SumSeq(Val(prp)), Len(Val(prp))))
                         ELSE None
        cloudAvg == IF Len(cc) > 0 THEN Some(RoundDiv(SumSeq(cc), Len(cc))) ELSE None
    IN  [tempC      |-> At(t2m, idx),
         windSpeed  |-> At(ws10, idx),
         cloud      |-> cloudAvg,
         precipMm   |-> Some(precipDaySum),
         precipProb |-> precipProbAvg]

\* the promise of an upstream exchange that ended net settles as rejected when
\* fetch rejects, when res.ok is false and when res.json() throws
Rejects(net) == net \in {"unreachable", "http_error", "bad_body"}

\* fetchGFSviaOpenMeteo(lat, lon, dateISO), given the upstream reply
fetchGFSviaOpenMeteo(reply) ==
    IF Rejects(reply.net) THEN [status |-> "rejected", value |-> None]
    ELSE [status |-> "fulfilled", value |-> Some(ForecastOf(reply))]

(***************************************************************************)
(* Historical source: fetchHistoricalPOWERForDay / fetchHistoricalERA5ForDay*)
(* A per-year reply is [net, p, t, w]: p, t, w the day's precipitation,    *)
(* temperature and wind, None when the reply carries no value.             *)
(***************************************************************************)
\* fetchOne(y), given the upstream reply for that year
fetchOne(reply) ==
    IF Rejects(reply.net) THEN [status |-> "rejected", value |-> None]
    ELSE [status |-> "fulfilled",
          value |-> Some([p |-> reply.p, t |-> reply.t, w |-> reply.w])]

\* FulfilledValues with a failed year kept as a year without values
FulfilledValues_failedAsEmpty(results) ==
    [i \in 1..Len(results) |->
        IF results[i].status = "fulfilled" THEN Val(results[i].value)
        ELSE [p |-> None, t |-> None, w |-> None]]

\* results.filter(r => r.status === 'fulfilled').map(r => r.value)
FulfilledValues(results) ==
    LET ok == SelectSeq(results, LAMBDA r : r.status = "fulfilled")
    IN  [i \in 1..Len(ok) |-> Val(ok[i].value)]

\* v ?? 0
OrZero(o) == IF IsSome(o) THEN Val(o) ELSE 0

\* HistAggregate with an empty set of years aggregated to zero
HistAggregate_zeroWhenEmpty(values) ==
    LET n == Len(values)
        rainOccurrences ==
            Cardinality({i \in 1..n : OrZero(values[i].p) >= PrecipThresholdTenths})
        sumT == SumSeq([i \in 1..n |-> OrZero(values[i].t)])
        sumW == SumSeq([i \in 1..n |-> OrZero(values[i].w)])
    IN  [histProb |-> IF n > 0 THEN Some(RoundDiv(100 * rainOccurrences, n)) ELSE Some(0),
         meanTemp |-> IF n > 0 THEN Some(RoundDiv(sumT, n)) ELSE Some(0),
         meanWind |-> IF n > 0 THEN Some(RoundDiv(sumW, n)) ELSE Some(0)]

\* histProb, meanTemp, meanWind over the fulfilled years
HistAggregate(values) ==
    LET n == Len(values)
        rainOccurrences ==
            Cardinality({i \in 1..n : OrZero(values[i].p) >= PrecipThresholdTenths})
        sumT == SumSeq([i \in 1..n |-> OrZero(values[i].t)])
        sumW == SumSeq([i \in 1..n |-> OrZero(values[i].w)])
    IN  [histProb |-> IF n > 0 THEN Some(RoundDiv(100 * rainOccurrences, n)) ELSE None,
         meanTemp |-> IF n > 0 THEN Some(RoundDiv(sumT, n)) ELSE None,
         meanWind |-> IF n > 0 THEN Some(RoundDiv(sumW, n)) ELSE None]

\* fetchHistoricalPOWERForDay, given the settled per-year results: it always
\* fulfils (Promise.allSettled)
fetchHistoricalPOWERForDay(results) ==
    [status |-> "fulfilled", value |-> Some(HistAggregate(FulfilledValues(results)))]

\* fetchHistoricalERA5ForDay: the same aggregation over the ERA5 archive
fetchHistoricalERA5ForDay(results) ==
    [status |-> "fulfilled", value |-> Some(HistAggregate(FulfilledValues(results)))]

(***************************************************************************)
(* Aggregation (Partie 4 of POST)                                          *)
(***************************************************************************)
\* forecast?.field on an optional Forecast
ForecastField(forecast, field) ==
    IF IsSome(forecast) THEN Val(forecast)[field] ELSE None

\* hist?.field on an optional historical aggregate
HistField(hist, field) == IF IsSome(hist) THEN Val(hist)[field] ELSE None

\* BaseRainRisk with the precipitation amount tried before the probability
BaseRainRisk_mmFirst(forecast, hist) ==
    LET precipProb == ForecastField(forecast, "precipProb")
        precipMm   == ForecastField(forecast, "precipMm")
        histProb   == HistField(hist, "histProb")
    IN  IF IsSome(precipMm)
        THEN Blend(riskFromPrecipMm(precipMm),
                   Val(Coalesce(histProb, Some(riskFromPrecipMm(precipMm)))))
        ELSE IF IsSome(precipProb)
        THEN Blend(Val(precipProb), Val(Coalesce(histProb, precipProb)))
        ELSE IF IsSome(histProb) THEN Val(histProb)
        ELSE NeutralRisk

\* the rain risk before the activity adjustment
BaseRainRisk(forecast, hist) ==
    LET precipProb == ForecastField(forecast, "precipProb")
        precipMm   == ForecastField(forecast, "precipMm")
        histProb   == HistField(hist, "histProb")
    IN  IF IsSome(precipProb)
        THEN Blend(Val(precipProb), Val(Coalesce(histProb, precipProb)))
        ELSE IF IsSome(precipMm)
        THEN Blend(riskFromPrecipMm(precipMm),
                   Val(Coalesce(histProb, Some(riskFromPrecipMm(precipMm)))))
        ELSE IF IsSome(histProb) THEN Val(histProb)
        ELSE NeutralRisk

\* /vacances|extérieur|rando|plage/i.test(activity)
IsOutdoor(activity) == IsSome(activity) /\ LowerOf(Val(activity)) \in OutdoorPattern

\* Math.min(100, Math.round(rainRisk * 1.15)); 50 * 1.15 is 57.49999999999999
\* in IEEE double arithmetic
Inflate(risk) ==
    LET r == IF risk = 50 THEN 57 ELSE (115 * risk + 50) \div 100
    IN  IF r > 100 THEN 100 ELSE r

\* the rain risk after the activity adjustment
RainRisk(forecast, hist, activity) ==
    IF IsOutdoor(activity) THEN Inflate(BaseRainRisk(forecast, hist))
    ELSE BaseRainRisk(forecast, hist)

(***************************************************************************)
(* AI parser client: parseWithOpenRouter.  An upstream reply is            *)
(* [net, content, location, date, activity]: content says whether          *)
(* choices[0].message.content is missing ("absent"), is a string that      *)
(* JSON.parse rejects ("unparseable") or is a JSON object ("object") whose *)
(* location, date and activity (synonyms resolved) are the other fields.   *)
(***************************************************************************)
EmptyIntent == [location |-> None, dateISO |-> None, activity |-> None]

\* parseWithOpenRouter with every failure resolved to an empty intent
parseWithOpenRouter_resolvesEmpty(reply) ==
    IF Rejects(reply.net) \/ reply.content # "object"
    THEN [status |-> "fulfilled", value |-> EmptyIntent]
    ELSE [status |-> "fulfilled",
          value |-> [location |-> sanitizeLocationString(reply.location),
                     dateISO  |-> normalizeDateISO(reply.date),
                     activity |-> reply.activity]]

\* parseWithOpenRouter(query) once the provider has answered
parseWithOpenRouter(reply) ==
    IF Rejects(reply.net) THEN [status |-> "rejected", value |-> EmptyIntent]
    ELSE IF reply.content # "object" THEN [status |-> "fulfilled", value |-> EmptyIntent]
    ELSE [status |-> "fulfilled",
          value |-> [location |-> sanitizeLocationString(reply.location),
                     dateISO  |-> normalizeDateISO(reply.date),
                     activity |-> reply.activity]]

\* parseWithOpenRouter(query).catch(() => ({}))
CatchEmpty(promise) == IF promise.status = "rejected" THEN EmptyIntent ELSE promise.value

(***************************************************************************)
(* Inputs of the model                                                     *)
(***************************************************************************)
\* the day the requests are made: 2025-06-01
Today == DaysFromCivil(2025, 6, 1)

\* the instants at which a request is handled: midnight and later that day
Nows == {Midnight(Today), Midnight(Today) + 1}

QParis == <<"Vacances", "à", "Paris", "le", "10", "octobre">>

QNice == <<"plage", "a", "Nice", "le", "5", "mars", "2020">>

\* a query that is a place name and nothing else
QBare == <<"Paris">>

\* body.query: missing, a blank string, a sentence, a bare place name
BodyQueries == {None, Some(<<>>), Some(QParis), Some(QNice), Some(QBare)}

\* body.date: missing, not a date, days around the forecast horizon
BodyDates ==
    {None, Some(JunkDateString), Some(IsoString(Today)),
     Some(IsoString(Today + GFSHorizonDays)),
     Some(IsoString(Today + GFSHorizonDays + 1)),
     Some(Timestamp(Midnight(Today + GFSHorizonDays + 1) + 1))}

\* body.activity
BodyActivities == {None, Some("vacances"), Some("exterieur")}

\* body.lat / body.lon: missing, or a point
BodyCoords == {None, Some([src |-> "body", q |-> <<>>])}

Bodies ==
    [json : {TRUE}, query : BodyQueries, coords : BodyCoords,
     date : BodyDates, activity : BodyActivities]

\* a body that request.json() rejects
MalformedBody ==
    [json |-> FALSE, query |-> None, coords |-> None, date |-> None, activity |-> None]

\* what the language model may answer
LLMReplies ==
    [net : {"unreachable", "http_error", "bad_body"}, content : {"absent"},
     location : {None}, date : {None}, activity : {None}]
    \cup
    [net : {"ok"}, content : {"absent", "unparseable"},
     location : {None}, date : {None}, activity : {None}]
    \cup
    [net : {"ok"}, content : {"object"},
     location : {None, Some(<<"Paris">>)},
     date : {None, Some(IsoString(Today + 3)), Some(Timestamp(Midnight(Today + 20) + 1))},
     activity : {None, Some("plage")}]

\* what the forecast provider may answer
GFSReplies ==
    { [net |-> "http_error", time |-> None, t2m |-> None, ws10 |-> None,
       cc |-> None, pr |-> None, prp |-> None],
      [net |-> "ok", time |-> Some(<<0, 12>>), t2m |-> Some(<<150, 215>>),
       ws10 |-> Some(<<30, 60>>), cc |-> Some(<<40, 80>>), pr |-> Some(<<0, 20>>),
       prp |-> Some(<<70, 90>>)],
      [net |-> "ok", time |-> Some(<<0, 12>>), t2m |-> Some(<<150, 215>>),
       ws10 |-> Some(<<30, 60>>), cc |-> Some(<<40, 80>>), pr |-> Some(<<0, 20>>),
       prp |-> None],
      [net |-> "ok", time |-> None, t2m |-> None, ws10 |-> None,
       cc |-> None, pr |-> None, prp |-> None] }

\* what the historical provider may answer for one year
YearReplies ==
    { [net |-> "http_error", p |-> None, t |-> None, w |-> None],
      [net |-> "ok", p |-> Some(0), t |-> Some(180), w |-> Some(40)],
      [net |-> "ok", p |-> Some(25), t |-> Some(121), w |-> Some(110)] }

(***************************************************************************)
(* State of one Predict request                                            *)
(***************************************************************************)
VARIABLES
    pc,         \* where the handler stands
    body,       \* the request body
    strict,     \* process.env.PARSING_STRICT === 'true'
    apiKey,     \* process.env.OPENROUTER_API_KEY is set
    now,        \* the instant the request is handled
    location,   \* let location
    date,       \* let date
    activity,   \* let activity
    coords,     \* lat, lon
    llmReply,   \* the language model's answer, once received
    aiPromise,  \* the promise parseWithOpenRouter returned
    fbCalled,   \* parseFrenchFallback has been called
    calls,      \* the upstream requests issued so far, in order
    gfs,        \* the promise fetchGFSviaOpenMeteo returned
    years,      \* the promises of the per-year fetches
    forecast,   \* let forecast
    hist,       \* let hist
    response,   \* the response returned
    unit        \* a function under test on its own: [fn, arg, out]

vars ==
    << pc, body, strict, apiKey, now, location, date, activity, coords, llmReply,
       aiPromise, fbCalled, calls, gfs, years, forecast, hist, response, unit >>

NoPromise == [status |-> "none", value |-> None]

Pending == [status |-> "pending", value |-> None]

Settled(p) == p.status \in {"fulfilled", "rejected"}

IdleUnit == [fn |-> "none", arg |-> None, out |-> None]

Init ==
    /\ pc = "start"
    /\ body \in Bodies \cup {MalformedBody}
    /\ strict \in BOOLEAN
    /\ apiKey \in BOOLEAN
    /\ now \in Nows
    /\ location = None
    /\ date = None
    /\ activity = None
    /\ coords = None
    /\ llmReply = None
    /\ aiPromise = NoPromise
    /\ fbCalled = FALSE
    /\ calls = <<>>
    /\ gfs = NoPromise
    /\ years = [i \in 1..YearsBack |-> NoPromise]
    /\ forecast = None
    /\ hist = None
    /\ response = None
    /\ unit = IdleUnit

\* NextResponse.json({error, ...}, {status})
ErrorResponse(status) == [status |-> status, error |-> TRUE, prediction |-> None]

\* NextResponse.json(response)
OkResponse(prediction) == [status |-> 200, error |-> FALSE, prediction |-> Some(prediction)]

\* query && typeof query === 'string' && query.trim().length > 0
QueryUsable(query) == IsSome(query) /\ Val(query) # <<>>

\* one upstream request
Call(svc, arg) == [svc |-> svc, arg |-> arg]

\* const body = await request.json(); let { query, lat, lon, date, activity } = body
ReadBody ==
    /\ pc = "start"
    /\ IF ~body.json
       THEN /\ response' = Some(ErrorResponse(500))
            /\ pc' = "done"
            /\ UNCHANGED << date, activity, coords >>
       ELSE /\ date' = body.date
            /\ activity' = body.activity
            /\ coords' = body.coords
            /\ pc' = IF QueryUsable(body.query) THEN "parse" ELSE "defaults"
            /\ UNCHANGED response
    /\ UNCHANGED << body, strict, apiKey, now, location, llmReply, aiPromise, fbCalled,
                 calls, gfs, years, forecast, hist, unit >>

\* parseWithOpenRouter(query) up to its await: no request without an API key
CallParser ==
    /\ pc = "parse"
    /\ IF apiKey
       THEN /\ calls' = Append(calls, Call("llm", Val(body.query)))
            /\ aiPromise' = Pending
       ELSE /\ aiPromise' = [status |-> "fulfilled", value |-> EmptyIntent]
            /\ UNCHANGED calls
    /\ pc' = "ai_wait"
    /\ UNCHANGED << body, strict, apiKey, now, location, date, activity, coords,
                 llmReply, fbCalled, gfs, years, forecast, hist, response, unit >>

\* the language model answers (or the connection fails)
LLMResponds ==
    /\ pc = "ai_wait"
    /\ aiPromise.status = "pending"
    /\ \E reply \in LLMReplies :
         /\ llmReply' = Some(reply)
         /\ aiPromise' = parseWithOpenRouter(reply)
    /\ UNCHANGED << pc, body, strict, apiKey, now, location, date, activity, coords,
                 fbCalled, calls, gfs, years, forecast, hist, response, unit >>

\* StrictFails with the date forgotten
StrictFails_locationOnly(strictMode, loc, dt) == strictMode /\ ~IsSome(loc)

\* if (strict && (!location || !date))
StrictFails(strictMode, loc, dt) == strictMode /\ (~IsSome(loc) \/ ~IsSome(dt))

\* if (!location || !date) of the fallback
NeedsFallback(loc, dt) == ~IsSome(loc) \/ ~IsSome(dt)

\* POST from the settled parser promise to the end of the query block
MergeIntent ==
    /\ pc = "ai_wait"
    /\ Settled(aiPromise)
    /\ LET parsed == CatchEmpty(aiPromise)
           loc1 == Coalesce(parsed.location, location)
           act1 == Coalesce(parsed.activity, activity)
           dt1  == Coalesce(parsed.dateISO, date)
           fb   == parseFrenchFallback(Val(body.query), now)
       IN  IF StrictFails(strict, loc1, dt1)
           THEN /\ location' = loc1
                /\ activity' = act1
                /\ date' = dt1
                /\ response' = Some(ErrorResponse(422))
                /\ pc' = "done"
                /\ UNCHANGED fbCalled
           ELSE IF NeedsFallback(loc1, dt1)
           THEN /\ location' = Coalesce(loc1, fb.location)
                /\ date' = Coalesce(dt1, fb.dateISO)
                /\ activity' = Coalesce(act1, fb.activity)
                /\ fbCalled' = TRUE
                /\ pc' = "defaults"
                /\ UNCHANGED response
           ELSE /\ location' = loc1
                /\ activity' = act1
                /\ date' = dt1
                /\ pc' = "defaults"
                /\ UNCHANGED << fbCalled, response >>
    /\ UNCHANGED << body, strict, apiKey, now, coords, llmReply, aiPromise, calls, gfs,
                 years, forecast, hist, unit >>

\* lat == null || lon == null
CoordsMissing(c) == ~IsSome(c)

\* the default date, then geocodeNominatim(location) up to its await
Defaults ==
    /\ pc = "defaults"
    /\ date' = IF IsSome(date) THEN date
               ELSE Some(toISODate(now + DefaultDaysAhead * UnitsPerDay))
    /\ IF CoordsMissing(coords) /\ IsSome(location)
       THEN /\ calls' = Append(calls, Call("geocode", Val(location)))
            /\ pc' = "geo_location"
       ELSE /\ pc' = "last_resort"
            /\ UNCHANGED calls
    /\ UNCHANGED << body, strict, apiKey, now, location, activity, coords, llmReply,
                 aiPromise, fbCalled, gfs, years, forecast, hist, response, unit >>

\* GeoLocationResponds with the geocoder's exception escaping the handler
GeoLocationResponds_escapes ==
    /\ pc = "geo_location"
    /\ \E found \in BOOLEAN :
         IF found
         THEN /\ coords' = Some([src |-> "location", q |-> Val(location)])
              /\ pc' = "last_resort"
         ELSE /\ pc' = "done"
              /\ UNCHANGED coords
    /\ UNCHANGED << body, strict, apiKey, now, location, date, activity, llmReply,
                 aiPromise, fbCalled, calls, gfs, years, forecast, hist, response,
                 unit >>

\* geocodeNominatim(location) settles: a point, or it throws out of POST's try
GeoLocationResponds ==
    /\ pc = "geo_location"
    /\ \E found \in BOOLEAN :
         IF found
         THEN /\ coords' = Some([src |-> "location", q |-> Val(location)])
              /\ pc' = "last_resort"
              /\ UNCHANGED response
         ELSE /\ response' = Some(ErrorResponse(500))
              /\ pc' = "done"
              /\ UNCHANGED coords
    /\ UNCHANGED << body, strict, apiKey, now, location, date, activity, llmReply,
                 aiPromise, fbCalled, calls, gfs, years, forecast, hist, unit >>

\* if ((lat == null || lon == null) && query): geocode the candidate location
LastResort ==
    /\ pc = "last_resort"
    /\ IF CoordsMissing(coords) /\ IsSome(body.query)
       THEN LET candidate == extractCandidateLocation(Val(body.query))
            IN  IF IsSome(candidate)
                THEN /\ calls' = Append(calls, Call("geocode", Val(candidate)))
                     /\ pc' = "geo_candidate"
                ELSE /\ pc' = "cleaned"
                     /\ UNCHANGED calls
       ELSE /\ pc' = "check"
            /\ UNCHANGED calls
    /\ UNCHANGED << body, strict, apiKey, now, location, date, activity, coords,
                 llmReply, aiPromise, fbCalled, gfs, years, forecast, hist, response,
                 unit >>

\* geocodeNominatim(candidate) settles: try { ... } catch {}
GeoCandidateResponds ==
    /\ pc = "geo_candidate"
    /\ \E found \in BOOLEAN :
         coords' = IF found
                   THEN Some([src |-> "candidate",
                              q |-> Val(extractCandidateLocation(Val(body.query)))])
                   ELSE coords
    /\ pc' = "cleaned"
    /\ UNCHANGED << body, strict, apiKey, now, location, date, activity, llmReply,
                 aiPromise, fbCalled, calls, gfs, years, forecast, hist, response, unit
                 >>

\* const cleaned = query.replace(...)...; if (cleaned) geocode it
Cleaned ==
    /\ pc = "cleaned"
    /\ IF cleanedQuery(Val(body.query)) # <<>>
       THEN /\ calls' = Append(calls, Call("geocode", cleanedQuery(Val(body.query))))
            /\ pc' = "geo_cleaned"
       ELSE /\ pc' = "check"
            /\ UNCHANGED calls
    /\ UNCHANGED << body, strict, apiKey, now, location, date, activity, coords,
                 llmReply, aiPromise, fbCalled, gfs, years, forecast, hist, response,
                 unit >>

\* geocodeNominatim(cleaned) settles: try { ... } catch {}
GeoCleanedResponds ==
    /\ pc = "geo_cleaned"
    /\ \E found \in BOOLEAN :
         coords' = IF found
                   THEN Some([src |-> "cleaned", q |-> cleanedQuery(Val(body.query))])
                   ELSE coords
    /\ pc' = "check"
    /\ UNCHANGED << body, strict, apiKey, now, location, date, activity, llmReply,
                 aiPromise, fbCalled, calls, gfs, years, forecast, hist, response, unit
                 >>

(***************************************************************************)
(* Partie 2 and 3 of POST: horizon classification and source dispatch      *)
(***************************************************************************)
\* Math.floor((target.getTime() - now.getTime()) / (1000 * 60 * 60 * 24))
DaysAhead(target, at) == (target - at) \div UnitsPerDay

\* IsNear with the horizon exclusive at 16 days
IsNear_exclusive(target, at) == target > at /\ DaysAhead(target, at) < GFSHorizonDays

\* isFuture && within16d
IsNear(target, at) == target > at /\ DaysAhead(target, at) <= GFSHorizonDays

\* the per-year requests of fetchHistoricalPOWERForDay: years year-1 .. year-N of
\* the target day
YearCalls(day) ==
    [i \in 1..YearsBack |-> Call("power", <<CivilFromDays(day)[1] - i,
                                          CivilFromDays(day)[2], CivilFromDays(day)[3]>>)]

\* the promises of the requests POST starts before its first await of Partie 3
GfsAtDispatch(near) == IF near THEN Pending ELSE NoPromise

\* YearsAtDispatch with the historical fetch started only after the forecast
\* has been awaited
YearsAtDispatch_afterForecast(near) ==
    [i \in 1..YearsBack |-> IF near THEN NoPromise ELSE Pending]

YearsAtDispatch(near) == [i \in 1..YearsBack |-> Pending]

CallsAtDispatch(near, day) ==
    (IF near THEN <<Call("gfs", day)>> ELSE <<>>) \o YearCalls(day)

\* from the coordinate check to the await of the fetches
Dispatch ==
    /\ pc = "check"
    /\ IF CoordsMissing(coords)
       THEN /\ response' = Some(ErrorResponse(400))
            /\ pc' = "done"
            /\ UNCHANGED << calls, gfs, years >>
       ELSE IF ~Val(date).ok
       THEN /\ response' = Some(ErrorResponse(500))
            /\ pc' = "done"
            /\ UNCHANGED << calls, gfs, years >>
       ELSE LET target == Val(date).t
                near == IsNear(target, now)
            IN  /\ calls' = calls \o CallsAtDispatch(near, DayOf(target))
                /\ gfs' = GfsAtDispatch(near)
                /\ years' = YearsAtDispatch(near)
                /\ pc' = "fetch"
                /\ UNCHANGED response
    /\ UNCHANGED << body, strict, apiKey, now, location, date, activity, coords,
                 llmReply, aiPromise, fbCalled, forecast, hist, unit >>

\* the forecast provider answers
ForecastResponds ==
    /\ pc = "fetch"
    /\ gfs.status = "pending"
    /\ \E reply \in GFSReplies : gfs' = fetchGFSviaOpenMeteo(reply)
    /\ UNCHANGED << pc, body, strict, apiKey, now, location, date, activity, coords,
                 llmReply, aiPromise, fbCalled, calls, years, forecast, hist, response,
                 unit >>

\* the historical provider answers for one year
YearResponds ==
    /\ pc = "fetch"
    /\ \E i \in 1..YearsBack :
         /\ years[i].status = "pending"
         /\ \E reply \in YearReplies : years' = [years EXCEPT ![i] = fetchOne(reply)]
    /\ UNCHANGED << pc, body, strict, apiKey, now, location, date, activity, coords,
                 llmReply, aiPromise, fbCalled, calls, gfs, forecast, hist, response,
                 unit >>

\* if (f.status === 'fulfilled') forecast = f.value; else forecast = null
SettledValue(promise) == IF promise.status = "fulfilled" THEN promise.value ELSE None

\* source: isFuture && within16d ? 'GFS+ERA5' : 'ERA5'
SourceLabel(near) == IF near THEN "GFS+ERA5" ELSE "ERA5"

\* the response body of a prediction
Prediction(fc, hs, act, near, day) ==
    [rainRisk |-> RainRisk(fc, hs, act),
     wind     |-> labelWind(Coalesce(ForecastField(fc, "windSpeed"),
                                     HistField(hs, "meanWind"))),
     temp     |-> Coalesce(ForecastField(fc, "tempC"), HistField(hs, "meanTemp")),
     source   |-> SourceLabel(near),
     date     |-> day]

\* Aggregate reading the per-year results before all of them have settled
Aggregate_withoutWaiting ==
    /\ pc = "fetch"
    /\ gfs.status # "pending"
    /\ LET near == IsNear(Val(date).t, now)
           h  == fetchHistoricalPOWERForDay(years)
           fc == IF near THEN SettledValue(gfs) ELSE None
           hs == SettledValue(h)
       IN  /\ forecast' = fc
           /\ hist' = hs
           /\ response' = Some(OkResponse(
                  Prediction(fc, hs, activity, near, DayOf(Val(date).t))))
    /\ pc' = "done"
    /\ UNCHANGED << body, strict, apiKey, now, location, date, activity, coords,
                 llmReply, aiPromise, fbCalled, calls, gfs, years, unit >>

\* the fetches have settled: Partie 4 and 5
Aggregate ==
    /\ pc = "fetch"
    /\ gfs.status # "pending"
    /\ \A i \in 1..YearsBack : Settled(years[i])
    /\ LET near == IsNear(Val(date).t, now)
           h  == fetchHistoricalPOWERForDay(years)
           fc == IF near THEN SettledValue(gfs) ELSE None
           hs == SettledValue(h)
       IN  /\ forecast' = fc
           /\ hist' = hs
           /\ response' = Some(OkResponse(
                  Prediction(fc, hs, activity, near, DayOf(Val(date).t))))
    /\ pc' = "done"
    /\ UNCHANGED << body, strict, apiKey, now, location, date, activity, coords,
                 llmReply, aiPromise, fbCalled, calls, gfs, years, unit >>

Next ==
    \/ ReadBody
    \/ CallParser
    \/ LLMResponds
    \/ MergeIntent
    \/ Defaults
    \/ GeoLocationResponds
    \/ LastResort
    \/ GeoCandidateResponds
    \/ Cleaned
    \/ GeoCleanedResponds
    \/ Dispatch
    \/ ForecastResponds
    \/ YearResponds
    \/ Aggregate

Spec == Init /\ [][Next]_vars

\* the steps POST takes by itself; the others are answers of an upstream service
HandlerStep ==
    \/ ReadBody
    \/ CallParser
    \/ MergeIntent
    \/ Defaults
    \/ LastResort
    \/ Cleaned
    \/ Dispatch
    \/ Aggregate

\* the handler always goes on when it can; every fetch is awaited without a
\* timer or an abort signal, so that nothing in the program makes a silent
\* upstream service answer
SpecLive == Init /\ [][Next]_vars /\ WF_vars(HandlerStep)

(***************************************************************************)
(* The sources and the aggregation on their own: each specification below  *)
(* draws the inputs of one function from a bounded set and applies it.     *)
(***************************************************************************)
\* no request is being handled
IdleRequest ==
    /\ pc = "unit"
    /\ body = MalformedBody
    /\ strict = FALSE
    /\ apiKey = FALSE
    /\ now = Midnight(Today)
    /\ location = None
    /\ date = None
    /\ activity = None
    /\ coords = None
    /\ llmReply = None
    /\ aiPromise = NoPromise
    /\ fbCalled = FALSE
    /\ calls = <<>>
    /\ gfs = NoPromise
    /\ forecast = None
    /\ hist = None
    /\ response = None

\* replies of the forecast provider: every variable present or omitted
GFSUnitReplies ==
    [net : {"unreachable", "http_error", "bad_body"}, time : {None}, t2m : {None},
     ws10 : {None}, cc : {None}, pr : {None}, prp : {None}]
    \cup
    [net : {"ok"},
     time : {None, Some(<<>>), Some(<<0, 12>>), Some(<<0, 6, 18>>)},
     t2m  : {None, Some(<<150, 215>>), Some(<<150, 215, -30>>)},
     ws10 : {None, Some(<<30, 60>>)},
     cc   : {None, Some(<<>>), Some(<<40, 81>>)},
     pr   : {None, Some(<<0, 25>>)},
     prp  : {None, Some(<<>>), Some(<<70, 91>>)}]

InitGFS ==
    /\ IdleRequest
    /\ years = [i \in 1..YearsBack |-> NoPromise]
    /\ unit \in [fn : {"fetchGFS"}, arg : {Some(r) : r \in GFSUnitReplies}, out : {None}]

\* fetchGFSviaOpenMeteo applied to the reply
ApplyGFS ==
    /\ unit.fn = "fetchGFS"
    /\ unit.out = None
    /\ unit' = [unit EXCEPT !.out = Some(fetchGFSviaOpenMeteo(Val(unit.arg)))]
    /\ UNCHANGED << pc, body, strict, apiKey, now, location, date, activity, coords,
                    llmReply, aiPromise, fbCalled, calls, gfs, years, forecast, hist,
                    response >>

SpecGFS == InitGFS /\ [][ApplyGFS]_vars

\* replies of the historical provider for one year
HistUnitReplies ==
    [net : {"unreachable", "http_error", "bad_body"}, p : {None}, t : {None}, w : {None}]
    \cup
    [net : {"ok"}, p : {None, Some(0), Some(5), Some(10), Some(25)},
     t : {None, Some(-25), Some(180)}, w : {None, Some(45)}]

\* the per-year requests are in flight
InitHist ==
    /\ IdleRequest
    /\ years = [i \in 1..YearsBack |-> Pending]
    /\ unit = [fn |-> "historical", arg |-> None, out |-> None]

\* one year's request settles, in any order
HistYearSettles ==
    /\ unit.fn = "historical"
    /\ \E i \in 1..YearsBack :
         /\ years[i].status = "pending"
         /\ \E reply \in HistUnitReplies : years' = [years EXCEPT ![i] = fetchOne(reply)]
    /\ UNCHANGED << pc, body, strict, apiKey, now, location, date, activity, coords,
                    llmReply, aiPromise, fbCalled, calls, gfs, forecast, hist, response,
                    unit >>

\* await Promise.allSettled(years.map(fetchOne)) and the aggregation after it
HistAggregates ==
    /\ unit.fn = "historical"
    /\ unit.out = None
    /\ \A i \in 1..YearsBack : Settled(years[i])
    /\ unit' = [unit EXCEPT !.out = Some([power |-> fetchHistoricalPOWERForDay(years),
                                          era5  |-> fetchHistoricalERA5ForDay(years)])]
    /\ UNCHANGED << pc, body, strict, apiKey, now, location, date, activity, coords,
                    llmReply, aiPromise, fbCalled, calls, gfs, years, forecast, hist,
                    response >>

NextHist == HistYearSettles \/ HistAggregates

SpecHist == InitHist /\ [][NextHist]_vars

\* forecasts fetchGFSviaOpenMeteo can return (precipMm is always a number), or
\* none (the fetch failed, or the date is outside the forecast branch)
BlendForecasts ==
    {None} \cup
    {Some(f) : f \in [tempC : {None, Some(215)},
                      windSpeed : {None, Some(60), Some(120)},
                      cloud : {None},
                      precipMm : {Some(0), Some(30), Some(100)},
                      precipProb : {None, Some(0), Some(1), Some(50), Some(80), Some(100)}]}

\* historical aggregates: of no year, or of some years
BlendHists ==
    {Some([histProb |-> None, meanTemp |-> None, meanWind |-> None])} \cup
    {Some(h) : h \in [histProb : {Some(0), Some(36), Some(40), Some(100)},
                      meanTemp : {Some(121)},
                      meanWind : {Some(40), Some(110)}]}

BlendActivities ==
    {None, Some("vacances"), Some("exterieur"), Some("extérieur"), Some("sport"),
     Some("Plage"), Some("rando")}

BlendArgs ==
    {a \in [forecast : BlendForecasts, hist : BlendHists, activity : BlendActivities,
            near : BOOLEAN] : ~a.near => a.forecast = None}

InitBlend ==
    /\ IdleRequest
    /\ years = [i \in 1..YearsBack |-> NoPromise]
    /\ unit \in [fn : {"aggregate"}, arg : {Some(a) : a \in BlendArgs}, out : {None}]

\* Partie 4 and 5 of POST applied to the fetched values: rainRisk before the
\* activity adjustment, and the response
ApplyBlend ==
    /\ unit.fn = "aggregate"
    /\ unit.out = None
    /\ LET a == Val(unit.arg)
       IN  unit' = [unit EXCEPT !.out =
                      Some([base |-> BaseRainRisk(a.forecast, a.hist),
                            prediction |-> Prediction(a.forecast, a.hist, a.activity,
                                                      a.near, Today)])]
    /\ UNCHANGED << pc, body, strict, apiKey, now, location, date, activity, coords,
                    llmReply, aiPromise, fbCalled, calls, gfs, years, forecast, hist,
                    response >>

SpecBlend == InitBlend /\ [][ApplyBlend]_vars

\* the instants at which the heuristic parser reads a date: days on and around
\* the dates it is given, one of them in a leap year
FallbackNows ==
    {Midnight(DaysFromCivil(2025, 3, 5)) + 1, Midnight(DaysFromCivil(2025, 3, 6)),
     Midnight(Today), Midnight(DaysFromCivil(2024, 6, 1)),
     Midnight(DaysFromCivil(2025, 10, 10)) + 1}

\* "le <day> <month> [<year>]": days in and out of the month, months in and out
\* of the table, years absent, past, current and before 1900
FallbackDateArgs ==
    [day : {"0", "5", "10", "29", "31"},
     month : {"mars", "Mars", "octobre", "février", "avril", "brumaire"},
     year : {None, Some("1800"), Some("2020"), Some("2025")},
     at : FallbackNows]

\* the sentence of a date argument
FallbackSentence(a) ==
    <<"Vacances", "a", "Nice", "le", a.day, a.month>>
        \o (IF IsSome(a.year) THEN <<Val(a.year)>> ELSE <<>>)

InitDate ==
    /\ IdleRequest
    /\ years = [i \in 1..YearsBack |-> NoPromise]
    /\ unit \in [fn : {"fallbackDate"}, arg : {Some(a) : a \in FallbackDateArgs},
                  out : {None}]

\* parseFrenchFallback(query).dateISO, read at the instant of the argument
ApplyFallbackDate ==
    /\ unit.fn = "fallbackDate"
    /\ unit.out = None
    /\ LET a == Val(unit.arg)
       IN  unit' = [unit EXCEPT !.out =
                      Some(parseFrenchFallback(FallbackSentence(a), a.at).dateISO)]
    /\ UNCHANGED << pc, body, strict, apiKey, now, location, date, activity, coords,
                    llmReply, aiPromise, fbCalled, calls, gfs, years, forecast, hist,
                    response >>

SpecDate == InitDate /\ [][ApplyFallbackDate]_vars

\* "<activity> <preposition> <Place> le <day> <month>": the preposition with
\* and without its accent, places of one and of two words
LocationArgs ==
    [activity : {"Vacances", "plage", "rando"},
     prep : {"à", "a", "A"},
     place : {<<"Paris">>, <<"Nice">>, <<"Le", "Havre">>},
     day : {"5", "10"},
     month : {"octobre", "mars"}]

\* the sentence of a location argument
LocationSentence(a) == <<a.activity, a.prep>> \o a.place \o <<"le", a.day, a.month>>

InitLocation ==
    /\ IdleRequest
    /\ years = [i \in 1..YearsBack |-> NoPromise]
    /\ unit \in [fn : {"fallbackLocation"}, arg : {Some(a) : a \in LocationArgs},
                  out : {None}]

\* parseFrenchFallback(query).location
ApplyFallbackLocation ==
    /\ unit.fn = "fallbackLocation"
    /\ unit.out = None
    /\ LET a == Val(unit.arg)
       IN  unit' = [unit EXCEPT !.out =
                      Some(parseFrenchFallback(LocationSentence(a), Midnight(Today)).location)]
    /\ UNCHANGED << pc, body, strict, apiKey, now, location, date, activity, coords,
                    llmReply, aiPromise, fbCalled, calls, gfs, years, forecast, hist,
                    response >>

SpecLocation == InitLocation /\ [][ApplyFallbackLocation]_vars

\* forecasts with and without a wind speed and a precipitation probability
AnswerForecasts ==
    {None} \cup
    {Some(f) : f \in [tempC : {None}, windSpeed : {None, Some(60)}, cloud : {None},
                      precipMm : {Some(0), Some(100)},
                      precipProb : {None, Some(0), Some(100)}]}

\* what the historical provider may answer for one year: a failure, or a reply
\* that carries or omits the precipitation and the wind speed of the day
AnswerYearReplies ==
    {[net |-> "http_error", p |-> None, t |-> None, w |-> None]} \cup
    [net : {"ok"}, p : {None, Some(0), Some(25)}, t : {Some(180)},
     w : {None, Some(45), Some(110)}]

AnswerArgs ==
    {a \in [forecast : AnswerForecasts, replies : [1..YearsBack -> AnswerYearReplies],
            activity : {None, Some("plage")}, near : BOOLEAN] :
        ~a.near => a.forecast = None}

InitAnswer ==
    /\ IdleRequest
    /\ years = [i \in 1..YearsBack |-> NoPromise]
    /\ unit \in [fn : {"answer"}, arg : {Some(a) : a \in AnswerArgs}, out : {None}]

\* Partie 3 to 5 of POST given what the providers answered: the historical
\* fetch over the per-year replies, then the response
ApplyAnswer ==
    /\ unit.fn = "answer"
    /\ unit.out = None
    /\ LET a == Val(unit.arg)
           h == fetchHistoricalPOWERForDay([i \in 1..YearsBack |-> fetchOne(a.replies[i])])
       IN  unit' = [unit EXCEPT !.out =
                      Some(Prediction(a.forecast, SettledValue(h), a.activity, a.near,
                                      Today))]
    /\ UNCHANGED << pc, body, strict, apiKey, now, location, date, activity, coords,
                    llmReply, aiPromise, fbCalled, calls, gfs, years, forecast, hist,
                    response >>

SpecAnswer == InitAnswer /\ [][ApplyAnswer]_vars

\* strings given to sanitizeLocationString: what stands before the place, the
\* place, what stands after it
SanitizeArgs ==
    [before : {<<>>, <<"à">>, <<"a">>, <<"A">>, <<"Vacances">>, <<"plage", "a">>,
               <<"Vacances", "à">>},
     place  : {<<>>, <<"Paris">>, <<"Nice">>},
     after  : {<<>>, <<"le", "10", "octobre", "2025">>, <<"le", "10", "octobre">>,
               <<"10", "octobre", "2025">>, <<"2025">>}]

InitSanitize ==
    /\ IdleRequest
    /\ years = [i \in 1..YearsBack |-> NoPromise]
    /\ unit \in [fn : {"sanitize"}, arg : {Some(a) : a \in SanitizeArgs}, out : {None}]

\* sanitizeLocationString applied to the string, in Predict and in the Parse route
ApplySanitize ==
    /\ unit.fn = "sanitize"
    /\ unit.out = None
    /\ LET a == Val(unit.arg)
           input == Some(a.before \o a.place \o a.after)
       IN  unit' = [unit EXCEPT !.out =
                      Some([predict |-> sanitizeLocationString(input),
                            route   |-> routeSanitizeLocationString(input)])]
    /\ UNCHANGED << pc, body, strict, apiKey, now, location, date, activity, coords,
                    llmReply, aiPromise, fbCalled, calls, gfs, years, forecast, hist,
                    response >>

SpecSanitize == InitSanitize /\ [][ApplySanitize]_vars

\* strings given to normalizeDateISO: none, YYYY-MM-DD strings of real and of
\* impossible dates, other parseable strings, strings that are no date
NormalizeArgs ==
    {None, Some(BadIsoString), Some(JunkDateString)}
    \cup {Some(IsoString(Today + k)) : k \in -10..20}
    \cup {Some(Timestamp(Midnight(Today + k) + u)) : k \in -10..20, u \in 0..(UnitsPerDay - 1)}

InitNormalize ==
    /\ IdleRequest
    /\ years = [i \in 1..YearsBack |-> NoPromise]
    /\ unit \in [fn : {"normalize"}, arg : NormalizeArgs, out : {None}]

\* normalizeDateISO applied once and twice, in Predict and in the Parse route
ApplyNormalize ==
    /\ unit.fn = "normalize"
    /\ unit.out = None
    /\ unit' = [unit EXCEPT !.out =
                  Some([once  |-> normalizeDateISO(unit.arg),
                        twice |-> normalizeDateISO(normalizeDateISO(unit.arg)),
                        routeOnce  |-> routeNormalizeDateISO(unit.arg),
                        routeTwice |-> routeNormalizeDateISO(
                                           routeNormalizeDateISO(unit.arg))])]
    /\ UNCHANGED << pc, body, strict, apiKey, now, location, date, activity, coords,
                    llmReply, aiPromise, fbCalled, calls, gfs, years, forecast, hist,
                    response >>

SpecNormalize == InitNormalize /\ [][ApplyNormalize]_vars

(***************************************************************************)
(* The Parse route (api/parse/route.ts).  A request is [json, query]:      *)
(* query.kind tells a missing query and one that is not a string from a    *)
(* string, whose tokens are query.text.  The language model's reply is as  *)
(* for Predict, with one more kind of content: "null", a string JSON.parse *)
(* accepts and that is no object.                                          *)
(***************************************************************************)
routeQueries ==
    {[kind |-> "missing", text |-> <<>>], [kind |-> "number", text |-> <<>>],
     [kind |-> "string", text |-> <<>>], [kind |-> "string", text |-> QParis],
     [kind |-> "string", text |-> QNice], [kind |-> "string", text |-> QBare]}

routeBodies ==
    [json : {TRUE}, query : routeQueries]
    \cup {[json |-> FALSE, query |-> [kind |-> "missing", text |-> <<>>]]}

routeReplies ==
    [net : {"unreachable", "http_error", "bad_body"}, content : {"absent"},
     location : {None}, date : {None}, activity : {None}]
    \cup
    [net : {"ok"}, content : {"absent", "unparseable", "null"},
     location : {None}, date : {None}, activity : {None}]
    \cup
    [net : {"ok"}, content : {"object"},
     location : {None, Some(<<"Paris">>), Some(<<"a", "Nice", "le", "5", "mars", "2020">>),
                 Some(<<"à", "Paris", "le", "10", "octobre", "2025">>)},
     date : {None, Some(JunkDateString), Some(IsoString(Today + 3)),
             Some(Timestamp(Midnight(Today + 20) + 1))},
     activity : {None, Some("plage")}]

\* !query || typeof query !== 'string' || !query.trim()
routeQueryMissing(query) == query.kind # "string" \/ query.text = <<>>

\* the 200 response of the route
routeOk(reply) ==
    [status |-> 200, error |-> FALSE,
     model_parsed |-> [location |-> reply.location, dateISO |-> reply.date,
                       activity |-> reply.activity],
     normalized |-> [location |-> routeSanitizeLocationString(reply.location),
                     dateISO  |-> routeNormalizeDateISO(reply.date),
                     activity |-> reply.activity]]

\* the response of the route once the provider has answered: a rejected fetch,
\* a body res.json() rejects and a property read on null go to the outer catch
routeOutcome(reply) ==
    CASE reply.net = "unreachable"     -> ErrorResponse(500)
      [] reply.net = "http_error"      -> ErrorResponse(502)
      [] reply.net = "bad_body"        -> ErrorResponse(500)
      [] reply.content = "absent"      -> ErrorResponse(502)
      [] reply.content = "unparseable" -> ErrorResponse(502)
      [] reply.content = "null"        -> ErrorResponse(500)
      [] OTHER                         -> routeOk(reply)

InitRoute ==
    /\ pc = "route_start"
    /\ body \in routeBodies
    /\ apiKey \in BOOLEAN
    /\ strict = FALSE
    /\ now = Midnight(Today)
    /\ location = None
    /\ date = None
    /\ activity = None
    /\ coords = None
    /\ llmReply = None
    /\ aiPromise = NoPromise
    /\ fbCalled = FALSE
    /\ calls = <<>>
    /\ gfs = NoPromise
    /\ years = [i \in 1..YearsBack |-> NoPromise]
    /\ forecast = None
    /\ hist = None
    /\ response = None
    /\ unit = IdleUnit

\* POST of the route up to the call to the provider
routeReceive ==
    /\ pc = "route_start"
    /\ IF ~body.json
       THEN /\ response' = Some(ErrorResponse(500))
            /\ pc' = "done"
            /\ UNCHANGED calls
       ELSE IF routeQueryMissing(body.query)
       THEN /\ response' = Some(ErrorResponse(400))
            /\ pc' = "done"
            /\ UNCHANGED calls
       ELSE IF ~apiKey
       THEN /\ response' = Some(ErrorResponse(500))
            /\ pc' = "done"
            /\ UNCHANGED calls
       ELSE /\ calls' = Append(calls, Call("llm", body.query.text))
            /\ pc' = "route_wait"
            /\ UNCHANGED response
    /\ UNCHANGED << body, strict, apiKey, now, location, date, activity, coords,
                    llmReply, aiPromise, fbCalled, gfs, years, forecast, hist, unit >>

\* POST of the route from the provider's answer to the response
routeResponds ==
    /\ pc = "route_wait"
    /\ \E reply \in routeReplies :
         /\ llmReply' = Some(reply)
         /\ response' = Some(routeOutcome(reply))
    /\ pc' = "done"
    /\ UNCHANGED << body, strict, apiKey, now, location, date, activity, coords,
                    aiPromise, fbCalled, calls, gfs, years, forecast, hist, unit >>

NextRoute == routeReceive \/ routeResponds

SpecRoute == InitRoute /\ [][NextRoute]_vars

(***************************************************************************)
(* Properties                                                              *)
(***************************************************************************)
\* the positions in calls of the requests sent to a service
CallsTo(svc) == {i \in 1..Len(calls) : calls[i].svc = svc}

\* the status of the response, 0 while there is none
Status == IF IsSome(response) THEN Val(response).status ELSE 0

\* C1: with no lat/lon in the body, once geocoding has been attempted and every
\* attempt has failed, the request ends with status 400 and an error payload
\* (never 500, never a prediction).
C1_GeocodeFailuresEndIn400 ==
    (/\ pc = "done"
     /\ body.json
     /\ ~IsSome(body.coords)
     /\ CallsTo("geocode") # {}
     /\ ~IsSome(coords))
    => response = Some(ErrorResponse(400))

\* C2: in strict mode, once the AI parser has returned for a usable query and
\* location or date is still absent, the request has ended with status 422, the
\* heuristic parser has not been called and no geocoder, forecast or historical
\* request has been issued.
C2_StrictModeHalts ==
    LET parsed == CatchEmpty(aiPromise)
    IN  (/\ strict
         /\ QueryUsable(body.query)
         /\ Settled(aiPromise)
         /\ pc # "ai_wait"
         /\ \/ ~IsSome(parsed.location)
            \/ ~IsSome(Coalesce(parsed.dateISO, body.date)))
        => /\ pc = "done"
           /\ response = Some(ErrorResponse(422))
           /\ ~fbCalled
           /\ CallsTo("geocode") = {}
           /\ CallsTo("gfs") = {}
           /\ CallsTo("power") = {}

\* a strict request answered 422 after the model returned a location and no date
C2_Witness ==
    /\ strict
    /\ Status = 422
    /\ IsSome(llmReply)
    /\ IsSome(location)
    /\ ~IsSome(date)

\* C3: in the near-future branch the forecast request and every historical
\* request are in flight before any of their results is awaited, and whatever
\* the outcome of each the request ends with status 200, a failed forecast
\* being null in the aggregation and a historical fetch whose years all failed
\* contributing no value.
C3_NearBranchToleratesFailures ==
    /\ (pc = "fetch" /\ Val(date).t > now
          /\ Val(date).t - now < (GFSHorizonDays + 1) * UnitsPerDay)
       => /\ gfs.status # "none"
          /\ \A i \in 1..YearsBack : years[i].status # "none"
    /\ (pc = "done" /\ gfs.status # "none")
       => /\ Status = 200
          /\ gfs.status = "rejected" => forecast = None
          /\ gfs.status = "fulfilled" => forecast = gfs.value
          /\ IsSome(hist)
          /\ (\A i \in 1..YearsBack : years[i].status = "rejected")
             => Val(hist) = [histProb |-> None, meanTemp |-> None, meanWind |-> None]
          /\ (gfs.status = "rejected"
                /\ \A i \in 1..YearsBack : years[i].status = "rejected")
             => /\ Val(Val(response).prediction).temp = None
                /\ Val(Val(response).prediction).wind = "inconnu"

\* both branches failed and the request still answered 200
C3_Witness ==
    /\ pc = "done"
    /\ Status = 200
    /\ gfs.status = "rejected"
    /\ \A i \in 1..YearsBack : years[i].status = "rejected"

\* C4: the forecast source is queried exactly when the target is strictly after
\* now and less than 17 whole days ahead (daysAhead <= 16); the historical
\* source is queried in every case that reaches the fetches; the response's
\* source is "GFS+ERA5" exactly when the forecast source was queried, "ERA5"
\* otherwise.
C4_ForecastIffWithinHorizon ==
    LET gfsCalled  == CallsTo("gfs") # {}
        dispatched == CallsTo("power") # {}
    IN  /\ gfsCalled => dispatched
        /\ pc = "fetch" => dispatched
        /\ dispatched
           => (gfsCalled <=> /\ Val(date).t > now
                             /\ Val(date).t - now < (GFSHorizonDays + 1) * UnitsPerDay)
        /\ Status = 200
           => /\ dispatched
              /\ Val(Val(response).prediction).source =
                    IF gfsCalled THEN "GFS+ERA5" ELSE "ERA5"

\* a prediction from the forecast branch for a target 16 days ahead or more
C4_Witness ==
    /\ Status = 200
    /\ Val(Val(response).prediction).source = "GFS+ERA5"
    /\ Val(date).t - now >= GFSHorizonDays * UnitsPerDay

\* C5 as stated: the promise of parseWithOpenRouter is never rejected.
C5_ParserNeverRejects == aiPromise.status # "rejected"

\* C5 amended: parseWithOpenRouter rejects exactly when the provider is
\* unreachable, answers a non-success status or sends a body that is not JSON;
\* it resolves to an empty intent when the content is missing or is not
\* parseable JSON; POST absorbs a rejection as an empty intent, so that the
\* request goes on to the strict-mode check and to the heuristic parser.
C5_RejectionAbsorbedByCaller ==
    /\ IsSome(llmReply)
       => /\ aiPromise.status = "rejected"
             <=> Val(llmReply).net \in {"unreachable", "http_error", "bad_body"}
          /\ (Val(llmReply).net = "ok" /\ Val(llmReply).content # "object")
             => aiPromise = [status |-> "fulfilled", value |-> EmptyIntent]
    /\ (aiPromise.status = "rejected" /\ pc # "ai_wait")
       => IF strict THEN response = Some(ErrorResponse(422))
          ELSE /\ fbCalled
               /\ location = FallbackLocation(Val(body.query))
               /\ activity = Coalesce(body.activity, FallbackActivity(Val(body.query)))

\* the parser's promise was rejected and the request still answered 200
C5_Witness ==
    /\ aiPromise.status = "rejected"
    /\ ~strict
    /\ fbCalled
    /\ Status = 200

\* C6: in non-strict mode, with a usable query and no date or activity in the
\* body, each of location, date and activity is, right after the query block,
\* the AI parser's value when it gave one and otherwise the heuristic parser's.
C6_HeuristicFillsEveryGap ==
    LET parsed == CatchEmpty(aiPromise)
        fb == parseFrenchFallback(Val(body.query), now)
    IN  (/\ ~strict
         /\ QueryUsable(body.query)
         /\ ~IsSome(body.date)
         /\ ~IsSome(body.activity)
         /\ pc = "defaults")
        => /\ location = Coalesce(parsed.location, fb.location)
           /\ date = Coalesce(parsed.dateISO, fb.dateISO)
           /\ activity = Coalesce(parsed.activity, fb.activity)

\* C7: before the activity adjustment the rain risk is (a) the 0.7/0.3 blend of
\* the forecast probability with the historical one (the forecast one when there
\* is no historical one) when the forecast has a probability; (b) else the same
\* blend of the probability converted from the forecast's precipitation; (c)
\* else the historical probability; (d) else 50.  Forecast 80 and historical 40
\* give 68.
C7_RainRiskPriority ==
    IsSome(unit.out) =>
        LET a    == Val(unit.arg)
            base == Val(unit.out).base
            fp   == IF IsSome(a.forecast) THEN Val(a.forecast).precipProb ELSE None
            mm   == IF IsSome(a.forecast) THEN Val(a.forecast).precipMm ELSE None
            hp   == Val(a.hist).histProb
            conv == riskFromPrecipMm(mm)
        IN  /\ IsSome(fp) => base = Blend(Val(fp), IF IsSome(hp) THEN Val(hp) ELSE Val(fp))
            /\ (~IsSome(fp) /\ IsSome(mm))
               => base = Blend(conv, IF IsSome(hp) THEN Val(hp) ELSE conv)
            /\ (~IsSome(fp) /\ ~IsSome(mm) /\ IsSome(hp)) => base = Val(hp)
            /\ (~IsSome(fp) /\ ~IsSome(mm) /\ ~IsSome(hp)) => base = 50
            /\ (fp = Some(80) /\ hp = Some(40)) => base = 68

\* forecast probability 80 blended with historical probability 40
C7_Witness ==
    /\ IsSome(unit.out)
    /\ IsSome(Val(unit.arg).forecast)
    /\ Val(Val(unit.arg).forecast).precipProb = Some(80)
    /\ Val(Val(unit.arg).forecast).precipMm = Some(0)
    /\ Val(Val(unit.arg).hist).histProb = Some(40)
    /\ Val(unit.out).base = 68

\* C8: in a prediction, the rain risk is min(100, round(1.15 * risk)) of the
\* resolved risk when the activity is one of vacances, extérieur, exterieur,
\* rando, plage, and the resolved risk itself otherwise.
C8_OutdoorActivityInflates ==
    Status = 200 =>
        LET base  == BaseRainRisk(forecast, hist)
            final == Val(Val(response).prediction).rainRisk
        IN  IF /\ IsSome(activity)
               /\ LowerOf(Val(activity)) \in
                     {"vacances", "extérieur", "exterieur", "rando", "plage"}
            THEN final = Inflate(base)
            ELSE final = base

\* C9: fetchGFSviaOpenMeteo rejects only when the exchange with the provider
\* failed, and a variable the reply omits is null in the Forecast.
C9_OmittedVariablesAreNull ==
    IsSome(unit.out) =>
        LET r == Val(unit.arg)
            o == Val(unit.out)
        IN  /\ o.status = "rejected" => r.net # "ok"
            /\ o.status = "fulfilled"
               => /\ r.t2m = None => Val(o.value).tempC = None
                  /\ r.ws10 = None => Val(o.value).windSpeed = None
                  /\ r.cc = None => Val(o.value).cloud = None
                  /\ r.pr = None => Val(o.value).precipMm = None
                  /\ r.prp = None => Val(o.value).precipProb = None

\* C10: when every per-year request has failed, the historical fetch (POWER and
\* ERA5 alike) still fulfils, and its rain probability, mean temperature and
\* mean wind are all null.
C10_NoYearNoValue ==
    (IsSome(unit.out) /\ \A i \in 1..YearsBack : years[i].status = "rejected")
    => \A src \in {"power", "era5"} :
         /\ Val(unit.out)[src].status = "fulfilled"
         /\ Val(Val(unit.out)[src].value) =
               [histProb |-> None, meanTemp |-> None, meanWind |-> None]

\* the aggregation ran with every year failed
C10_Witness ==
    /\ IsSome(unit.out)
    /\ \A i \in 1..YearsBack : years[i].status = "rejected"

\* C11: whatever subset of the per-year requests fails, the historical fetch
\* fulfils and its rain probability is round(100 * k / n), n the number of years
\* that answered and k the number of those with at least 1 mm of precipitation;
\* a failed year counts in neither.
C11_OnlySuccessfulYearsCount ==
    IsSome(unit.out) =>
        LET ok   == {i \in 1..YearsBack : years[i].status = "fulfilled"}
            wet  == {i \in ok : /\ IsSome(Val(years[i].value).p)
                                /\ Val(Val(years[i].value).p) >= PrecipThresholdTenths}
            n    == Cardinality(ok)
            k    == Cardinality(wet)
            out  == Val(unit.out).power
        IN  /\ out.status = "fulfilled"
            /\ n > 0 => Val(out.value).histProb = Some((200 * k + n) \div (2 * n))
            /\ n = 0 => Val(out.value).histProb = None

\* one year failed, another answered with rain: the probability is 100
C11_Witness ==
    /\ IsSome(unit.out)
    /\ \E i, j \in 1..YearsBack :
         /\ years[i].status = "rejected"
         /\ years[j].status = "fulfilled"
         /\ Val(years[j].value).p = Some(25)
    /\ Val(Val(unit.out).power.value).histProb = Some(100)

\* C12: the Parse route answers 400 when the query is missing, blank or not a
\* string, and then without any upstream call; otherwise 500 when the API
\* credential is missing; otherwise 502 when the provider is unreachable,
\* answers a non-success status, or sends a body or a content that is not
\* JSON; otherwise 200.
C12_RouteStatusLadder ==
    (pc = "done" /\ body.json) =>
        IF routeQueryMissing(body.query) THEN Status = 400 /\ calls = <<>>
        ELSE IF ~apiKey THEN Status = 500 /\ calls = <<>>
        ELSE IF \/ Val(llmReply).net # "ok"
                \/ Val(llmReply).content \in {"absent", "unparseable"}
             THEN Status = 502
        ELSE Status = 200

\* C13: every Predict request eventually produces a response, even when an
\* upstream service (language model, geocoder, forecast, a historical year)
\* never answers.
C13_EveryRequestResponds == <>(pc = "done")

\* C14: a Predict request whose date field is not a valid date is rejected
\* before any upstream call: no request to the language model, the geocoder,
\* the forecast or the historical source is ever made for it.
C14_MalformedDateNoUpstreamCall ==
    (body.json /\ IsSome(body.date) /\ ~Val(body.date).ok) => calls = <<>>

\* C15: POST never throws: a request has ended exactly when it has a response,
\* the status of the response is 200, 400, 422 or 500, a response carries an
\* error exactly when it carries no prediction, and each exception (body
\* that is not JSON, geocoder failing on the resolved location, date that is
\* no date at the horizon step, which strict mode's 422 alone can precede)
\* gives status 500.
C15_OneResponseAlways ==
    /\ pc = "done" <=> IsSome(response)
    /\ Status \in {0, 200, 400, 422, 500}
    /\ IsSome(response) => (Val(response).error <=> Status # 200)
    /\ IsSome(response) => (Val(response).error <=> Val(response).prediction = None)
    /\ (pc = "done" /\ ~body.json) => Status = 500
    /\ (pc = "done" /\ calls # <<>> /\ IsSome(location) /\ ~IsSome(coords)
          /\ calls[Len(calls)] = Call("geocode", Val(location)))
       => Status = 500
    /\ (pc = "done" /\ IsSome(coords) /\ IsSome(date) /\ ~Val(date).ok)
       => Status = IF strict /\ QueryUsable(body.query) /\ ~IsSome(location)
                   THEN 422 ELSE 500

\* the geocoder failed on the resolved location and the request answered 500
C15_Witness ==
    /\ Status = 500
    /\ IsSome(location)
    /\ calls # <<>>
    /\ calls[Len(calls)] = Call("geocode", Val(location))

\* C16: within one Predict request there is at most one request to the language
\* model and at most one to the forecast provider, the historical requests are
\* none or one per lookback year, all different, and no string is sent to the
\* geocoder twice.
C16_EveryCallAtMostOnce ==
    /\ Cardinality(CallsTo("llm")) <= 1
    /\ Cardinality(CallsTo("gfs")) <= 1
    /\ Cardinality(CallsTo("power")) \in {0, YearsBack}
    /\ \A i, j \in CallsTo("power") : calls[i].arg = calls[j].arg => i = j
    /\ \A i, j \in CallsTo("geocode") : calls[i].arg = calls[j].arg => i = j

C18_SanitizeKeepsPlaceOnly ==
    (IsSome(unit.out) /\ unit.fn = "sanitize") =>
        LET a == Val(unit.arg)
        IN  (/\ a.before \in {<<"à">>, <<"a">>}
             /\ a.place # <<>>
             /\ a.after \in {<<>>, <<"le", "10", "octobre", "2025">>})
            => /\ Val(unit.out).predict = Some(a.place)
               /\ Val(unit.out).route = Some(a.place)

\* C19: normalizeDateISO (Predict and Parse route) applied twice gives what it
\* gives applied once; a string of the form YYYY-MM-DD is returned as it is;
\* a string that is no date gives absent, and so does no string.
C19_NormalizeIdempotent ==
    (IsSome(unit.out) /\ unit.fn = "normalize") =>
        LET x == unit.arg
            o == Val(unit.out)
        IN  /\ o.twice = o.once
            /\ o.routeTwice = o.routeOnce
            /\ o.routeOnce = o.once
            /\ (IsSome(x) /\ Val(x).iso) => o.once = x
            /\ (IsSome(x) /\ ~Val(x).iso /\ ~Val(x).ok) => o.once = None
            /\ ~IsSome(x) => o.once = None
            /\ IsSome(o.once) => Val(o.once).iso

\* a valid YYYY-MM-DD string went through normalizeDateISO twice unchanged
C19_Witness ==
    /\ unit.fn = "normalize"
    /\ unit.arg = Some(IsoString(Today + 3))
    /\ IsSome(unit.out)
    /\ Val(unit.out).twice = Some(IsoString(Today + 3))

\* C20: coordinate resolution is first-success-wins: once the body, the geocoding
\* of the resolved location or the geocoding of the candidate location has given
\* coordinates, no geocoder lookup is made any more (so the cleaned query is
\* looked up only while coordinates are still missing), and coordinates, once
\* set, are never replaced.
C20_FirstSuccessWins ==
    /\ [](IsSome(coords) => pc \notin {"geo_location", "geo_candidate", "geo_cleaned"})
    /\ [](IsSome(body.coords) => CallsTo("geocode") = {})
    /\ [][IsSome(coords) => coords' = coords]_vars

\* C21: whatever the current instant, the forecast provider is never queried
\* for a target date more than 16 calendar days after the current UTC date.
C21_ForecastOnlyWithinSixteenDays ==
    CallsTo("gfs") # {}
    => DayOf(Val(date).t) - DayOf(now) <= GFSHorizonDays

\* C22: once the query has been parsed, a date (or activity) given explicitly
\* in the body together with a usable query is still the resolved date (or
\* activity), whatever either parser extracted from the query.
C22_BodyValuesOverrideParsers ==
    (body.json /\ QueryUsable(body.query) /\ pc \notin {"start", "parse", "ai_wait"})
    => /\ IsSome(body.date) => date = body.date
       /\ IsSome(body.activity) => activity = body.activity

\* C23: the historical aggregate (POWER and ERA5 alike) is computed only from
\* the years that returned an actual observation of the variable: a year that
\* answered without a value is not counted as 0, and a variable no year
\* observed is null.
C23_MissingValuesNotCountedAsZero ==
    IsSome(unit.out) =>
        \A src \in {"power", "era5"} :
            LET ok      == {i \in 1..YearsBack : years[i].status = "fulfilled"}
                seen(f) == {i \in ok : IsSome(Val(years[i].value)[f])}
                obs(f)  == [i \in 1..YearsBack |->
                               IF i \in seen(f) THEN Val(Val(years[i].value)[f]) ELSE 0]
                mean(f) == IF seen(f) = {} THEN None
                           ELSE Some(RoundDiv(SumSeq(obs(f)), Cardinality(seen(f))))
                wet     == {i \in seen("p") : obs("p")[i] >= PrecipThresholdTenths}
                agg     == Val(Val(unit.out)[src].value)
            IN  /\ agg.histProb =
                      IF seen("p") = {} THEN None
                      ELSE Some(RoundDiv(100 * Cardinality(wet), Cardinality(seen("p"))))
                /\ agg.meanTemp = mean("t")
                /\ agg.meanWind = mean("w")

\* C24: for a query "<activity> à <Place> le <day> <month>", with "à" or "a",
\* the heuristic parser returns the place as location.
C24_LocationAfterPreposition ==
    (unit.fn = "fallbackLocation" /\ IsSome(unit.out))
    => Val(unit.out) = Some(Val(unit.arg).place)

\* C25: a prediction is built only once the forecast request and every per-year
\* request have settled, and the historical aggregate and the response are
\* functions of the individual outcomes alone (which years answered and with
\* what, what the forecast answered), so that interleavings with the same
\* outcomes give the same aggregate and the same response.
C25_ResultIndependentOfCompletionOrder ==
    (pc = "done" /\ Status = 200) =>
        LET ok     == {i \in 1..YearsBack : years[i].status = "fulfilled"}
            n      == Cardinality(ok)
            obs(f) == [i \in 1..YearsBack |->
                          IF i \in ok THEN OrZero(Val(years[i].value)[f]) ELSE 0]
            wet    == {i \in ok : obs("p")[i] >= PrecipThresholdTenths}
            agg    == [histProb |-> IF n = 0 THEN None
                                    ELSE Some(RoundDiv(100 * Cardinality(wet), n)),
                       meanTemp |-> IF n = 0 THEN None
                                    ELSE Some(RoundDiv(SumSeq(obs("t")), n)),
                       meanWind |-> IF n = 0 THEN None
                                    ELSE Some(RoundDiv(SumSeq(obs("w")), n))]
            near   == gfs.status # "none"
            fc     == IF gfs.status = "fulfilled" THEN gfs.value ELSE None
        IN  /\ gfs.status # "pending"
            /\ \A i \in 1..YearsBack : Settled(years[i])
            /\ hist = Some(agg)
            /\ forecast = fc
            /\ Val(response).prediction =
                  Some(Prediction(fc, Some(agg), activity, near, DayOf(Val(date).t)))

\* a prediction built from a forecast that answered, one year that failed and
\* one year that answered: outcomes that several completion orders produce
C25_Witness ==
    /\ pc = "done"
    /\ Status = 200
    /\ gfs.status = "fulfilled"
    /\ \E i, j \in 1..YearsBack :
         /\ years[i].status = "rejected"
         /\ years[j].status = "fulfilled"
         /\ Val(years[j].value).p = Some(25)

\* C26: in every prediction, rainRisk is an integer of 0..100, whatever forecast
\* and historical values are present and whatever the activity; wind is
\* "inconnu" exactly when the forecast carries no wind speed and no year of the
\* historical source returned one.
C26_RiskInRangeWindUnknownIffNoData ==
    (unit.fn = "answer" /\ IsSome(unit.out)) =>
        LET a == Val(unit.arg)
            forecastWind == IsSome(ForecastField(a.forecast, "windSpeed"))
            histWind == \E i \in 1..YearsBack :
                           ~Rejects(a.replies[i].net) /\ IsSome(a.replies[i].w)
        IN  /\ Val(unit.out).rainRisk \in 0..100
            /\ (Val(unit.out).wind = "inconnu") <=> (~forecastWind /\ ~histWind)

====
